---- MODULE Spec2Model ----
(***************************************************************************)
(* A model of the todo API: the token manager, the password hasher, the   *)
(* error model, the auth service and the todo service over the relational *)
(* store.  The clock is counted in ticks, TicksPerSecond of them to a      *)
(* second; every INSERT and UPDATE runs at a NOW() strictly later than the *)
(* statement before it.                                                    *)
(***************************************************************************)
EXTENDS Integers, Sequences, FiniteSets, TLC

VARIABLES now, expiryHours, users, todos, nextUser, nextTodo, issued, resp, inflight, server, errValidation

vars == <<now, expiryHours, users, todos, nextUser, nextTodo, issued, resp, inflight, server, errValidation>>

\* ---------------------------------------------------------------- bounds
MaxUsers == 2

MaxTodos == 2

MaxTime == 5

MaxTokens == 2

MaxExpiryHours == 1

TicksPerSecond == 2

SecondsPerHour == 2

MaxRequests == 2

\* ------------------------------------------------------------ input data
\* Go's nil pointer / absent JSON field is the empty sequence, a present
\* value v is <<v>>.
None == <<>>

Some(v) == <<v>>

UserIds == 1..MaxUsers

TodoIds == 1..MaxTodos

Emails == {"a@b.com", "c@d.com"}

Names == {"A"}

\* "password123" is the documented example, "short" violates min=8, and
\* WidePassword stands for 72 two-byte characters (72 runes, 144 bytes).
WidePassword == "wide72"

Passwords == {"password123", "short", WidePassword}

Runes(s) == CASE s = "" -> 0 [] s = "password123" -> 11 [] s = "short" -> 5 [] s = WidePassword -> 72 [] s = "A" -> 1 [] OTHER -> 7

Bytes(s) == IF s = WidePassword THEN 2 * Runes(s) ELSE Runes(s)

\* A todo is created with one title and retitled to another.
CreateTitles == {"x"}

UpdateTitles == {"y"}

Descriptions == {"d"}

RegisterRequests == [email : Emails, password : Passwords, name : Names]

LoginRequests == [email : Emails, password : Passwords]

\* Bodies that decode but need not be valid: a field may be empty, the
\* email may be no email.
RegisterPayloads == [email : {"a@b.com", "", "not-an-email"}, password : Passwords \cup {""}, name : Names \cup {""}]

LoginPayloads == [email : {"a@b.com", "", "not-an-email"}, password : {"password123", ""}]

CreateTodoRequests == [title : CreateTitles, description : {None} \cup {Some(d) : d \in Descriptions}]

\* What a client can send to POST /todos: the fields of CreateTodoRequest
\* and fields the request type does not have.
CreateBodies == [title : CreateTitles, description : {None} \cup {Some(d) : d \in Descriptions}, completed : {None, Some(TRUE)}, user_id : {None} \cup {Some(u) : u \in UserIds}]

UpdateTodoRequests == [title : {None} \cup {Some(t) : t \in UpdateTitles}, description : {None} \cup {Some(d) : d \in Descriptions}, completed : {None, Some(TRUE), Some(FALSE)}]

\* A PATCH body that carries nothing but `completed`.
OnlyCompleted(c) == [title |-> None, description |-> None, completed |-> Some(c)]

\* ----------------------------------------------------------- error model
CodeValidation == "VALIDATION_ERROR"

CodeInvalidCredentials == "INVALID_CREDENTIALS"

CodeUserExists == "USER_EXISTS"

CodeNotFound == "NOT_FOUND"

CodeForbidden == "FORBIDDEN"

CodeUnauthorized == "UNAUTHORIZED"

CodeInternal == "INTERNAL_ERROR"

CodeBadRequest == "BAD_REQUEST"

\* A plain Go error (errors.New, fmt.Errorf): nothing but its text.
Errorf(text) == [error |-> text]

\* An AppError; err is the cause it wraps, None when it has none.
NewAppError(code, message, status, err) == [code |-> code, message |-> message, status |-> status, details |-> <<>>, err |-> err]

WithDetails(e, details) == [code |-> e.code, message |-> e.message, status |-> e.status, details |-> details, err |-> e.err]

\* The receiver of WithDetails after the call: the method builds a new
\* AppError and assigns no field of e.
Receiver_TakesDetails(e, details) == [e EXCEPT !.details = details]

Receiver(e, details) == e

ErrInvalidCredentials == NewAppError(CodeInvalidCredentials, "Invalid email or password", 401, None)

ErrUserExists == NewAppError(CodeUserExists, "User with this email already exists", 409, None)

ErrNotFound == NewAppError(CodeNotFound, "Resource not found", 404, None)

ErrForbidden == NewAppError(CodeForbidden, "You don't have permission to access this resource", 403, None)

ErrUnauthorized == NewAppError(CodeUnauthorized, "Authentication required", 401, None)

ErrInternal == NewAppError(CodeInternal, "An unexpected error occurred", 500, None)

ErrValidation == NewAppError(CodeValidation, "Validation failed", 400, None)

ErrBadRequest == NewAppError(CodeBadRequest, "Bad request", 400, None)

\* A Go (value, error) pair.
Ok(v) == [ok |-> TRUE, val |-> v]

Fail(e) == [ok |-> FALSE, err |-> e]

\* ------------------------------------------------------- password hasher
\* bcrypt.GenerateFromPassword refuses more than BcryptMaxBytes bytes; the
\* hash of an accepted password is a one-way value that names it.
BcryptMaxBytes == 72

Hash(password) == IF Bytes(password) > BcryptMaxBytes THEN Fail(Errorf("failed to hash password")) ELSE Ok([bcrypt |-> password])

Verify(password, hash) == IF hash = [bcrypt |-> password] THEN "ok" ELSE "mismatch"

\* --------------------------------------------------------- token manager
Secret == "server-secret"

SigningMethod == "HS256"

Hour == SecondsPerHour * TicksPerSecond

\* jwt.NewNumericDate truncates an instant to jwt.TimePrecision, a second.
NewNumericDate(t) == (t \div TicksPerSecond) * TicksPerSecond

GenerateToken_NoLifetime(userID, email, t) == [Token |-> [user_id |-> userID, email |-> email, exp |-> NewNumericDate(t), iat |-> NewNumericDate(t), nbf |-> NewNumericDate(t), iss |-> "todo-api", alg |-> SigningMethod, key |-> Secret], ExpiresAt |-> t]

GenerateToken(userID, email, t) == [Token |-> [user_id |-> userID, email |-> email, exp |-> NewNumericDate(t + expiryHours * Hour), iat |-> NewNumericDate(t), nbf |-> NewNumericDate(t), iss |-> "todo-api", alg |-> SigningMethod, key |-> Secret], ExpiresAt |-> t + expiryHours * Hour]

ValidateToken_ChecksUser(token, t) == IF token.alg # SigningMethod \/ token.key # Secret \/ ~(t < token.exp) \/ t < token.nbf \/ {u \in users : u.id = token.user_id} = {} THEN Fail(Errorf("failed to parse token")) ELSE Ok(token)

ValidateToken_AcceptsAtExpiry(token, t) == IF token.alg # SigningMethod \/ token.key # Secret \/ t > token.exp \/ t < token.nbf THEN Fail(Errorf("failed to parse token")) ELSE Ok(token)

\* jwt/v5 ParseWithClaims: the key function rejects another algorithm, the
\* signature is verified with the secret, exp must be after t and nbf not.
ValidateToken_AnyAlgorithm(token, t) == IF token.key # Secret \/ ~(t < token.exp) \/ t < token.nbf THEN Fail(Errorf("failed to parse token")) ELSE Ok(token)

ValidateToken(token, t) == IF token.alg # SigningMethod \/ token.key # Secret \/ ~(t < token.exp) \/ t < token.nbf THEN Fail(Errorf("failed to parse token")) ELSE Ok(token)

RefreshToken_KeepsExpiry(token, t) == IF ~ValidateToken(token, t).ok THEN Fail(Errorf("failed to parse token")) ELSE Ok([Token |-> [GenerateToken(token.user_id, token.email, t).Token EXCEPT !.exp = token.exp], ExpiresAt |-> token.exp])

RefreshToken_SkipsValidation(token, t) == Ok(GenerateToken(token.user_id, token.email, t))

RefreshToken(token, t) == IF ~ValidateToken(token, t).ok THEN Fail(Errorf("failed to parse token")) ELSE Ok(GenerateToken(ValidateToken(token, t).val.user_id, ValidateToken(token, t).val.email, t))

\* ------------------------------------------------------ validation layer
\* validator's min and max count the runes of a string.
PasswordViolations(p) == IF Runes(p) = 0 THEN <<"password: is required">> ELSE IF Runes(p) < 8 THEN <<"password: must be at least 8 characters">> ELSE IF Runes(p) > 72 THEN <<"password: must be at most 72 characters">> ELSE <<>>

NameViolations(n) == IF Runes(n) = 0 THEN <<"name: is required">> ELSE IF Runes(n) > 255 THEN <<"name: must be at most 255 characters">> ELSE <<>>

EmailViolations(e) == IF Runes(e) = 0 THEN <<"email: is required">> ELSE IF e \notin Emails THEN <<"email: must be a valid email">> ELSE IF Runes(e) > 255 THEN <<"email: must be at most 255 characters">> ELSE <<>>

formatValidationErrors_FailFast(req) == IF EmailViolations(req.email) # <<>> THEN EmailViolations(req.email) ELSE IF PasswordViolations(req.password) # <<>> THEN PasswordViolations(req.password) ELSE NameViolations(req.name)

formatValidationErrors(req) == EmailViolations(req.email) \o PasswordViolations(req.password) \o NameViolations(req.name)

validateStruct(req) == IF formatValidationErrors(req) # <<>> THEN Fail(WithDetails(errValidation, formatValidationErrors(req))) ELSE Ok(req)

\* LoginRequest: email is required and an email, password only required.
formatLoginErrors(req) == (IF Runes(req.email) = 0 THEN <<"email: is required">> ELSE IF req.email \notin Emails THEN <<"email: must be a valid email">> ELSE <<>>) \o (IF Runes(req.password) = 0 THEN <<"password: is required">> ELSE <<>>)

validateLogin(req) == IF formatLoginErrors(req) # <<>> THEN Fail(WithDetails(errValidation, formatLoginErrors(req))) ELSE Ok(req)

\* decodeJSON into a CreateTodoRequest: the fields of the type are read, a
\* field the type does not have is dropped.
decodeJSON(body) == [title |-> body.title, description |-> body.description]

\* ------------------------------------------------------ response envelope
JSON(op, in, status, data) == [op |-> op, in |-> in, success |-> TRUE, status |-> status, data |-> data]

\* The type assertion err.(*apperror.AppError).
IsAppError(e) == "code" \in DOMAIN e

JSONError_PlainAsBadRequest(op, e) == LET appErr == IF IsAppError(e) THEN e ELSE ErrBadRequest IN [op |-> op, success |-> FALSE, status |-> appErr.status, error |-> [code |-> appErr.code, message |-> appErr.message, details |-> appErr.details]]

JSONError_PassesPlain(op, e) == IF IsAppError(e) THEN [op |-> op, success |-> FALSE, status |-> e.status, error |-> [code |-> e.code, message |-> e.message, details |-> e.details]] ELSE [op |-> op, success |-> FALSE, status |-> 500, error |-> [code |-> CodeInternal, message |-> e.error, details |-> <<>>]]

\* JSONError: an error that is not an AppError goes out as ErrInternal; the
\* body holds code, message and details, the status is the AppError's.
JSONError(op, e) == LET appErr == IF IsAppError(e) THEN e ELSE ErrInternal IN [op |-> op, success |-> FALSE, status |-> appErr.status, error |-> [code |-> appErr.code, message |-> appErr.message, details |-> appErr.details]]

\* ------------------------------------------------------------ user store
ToUserInfo(u) == [id |-> u.id, email |-> u.email, name |-> u.name, created_at |-> u.created_at]

GetUserByEmail(email) == {u \in users : u.email = email}

GetUserByID(id) == {u \in users : u.id = id}

\* INSERT INTO users: id is the primary key, email is UNIQUE, created_at
\* defaults to NOW(), here the instant t of the statement.
CreateUser_EmailNotUnique(user, t) == IF \E u \in users : u.id = user.id THEN Fail(Errorf("failed to create user")) ELSE Ok([id |-> user.id, email |-> user.email, password_hash |-> user.password_hash, name |-> user.name, created_at |-> t])

CreateUser(user, t) == IF \E u \in users : u.id = user.id \/ u.email = user.email THEN Fail(Errorf("failed to create user")) ELSE Ok([id |-> user.id, email |-> user.email, password_hash |-> user.password_hash, name |-> user.name, created_at |-> t])

\* ---------------------------------------------------------- auth service
\* Each service operator gives the result it returns and, where it writes,
\* the rows of the store after it.
RegisterSvc_NoLookup(req, t) == IF ~Hash(req.password).ok THEN [res |-> Fail(ErrInternal), users |-> users] ELSE IF ~CreateUser([id |-> nextUser, email |-> req.email, password_hash |-> Hash(req.password).val, name |-> req.name], t).ok THEN [res |-> Fail(ErrInternal), users |-> users] ELSE [res |-> Ok(ToUserInfo(CreateUser([id |-> nextUser, email |-> req.email, password_hash |-> Hash(req.password).val, name |-> req.name], t).val)), users |-> users \cup {CreateUser([id |-> nextUser, email |-> req.email, password_hash |-> Hash(req.password).val, name |-> req.name], t).val}]

RegisterSvc(req, t) == IF GetUserByEmail(req.email) # {} THEN [res |-> Fail(ErrUserExists), users |-> users] ELSE IF ~Hash(req.password).ok THEN [res |-> Fail(ErrInternal), users |-> users] ELSE IF ~CreateUser([id |-> nextUser, email |-> req.email, password_hash |-> Hash(req.password).val, name |-> req.name], t).ok THEN [res |-> Fail(ErrInternal), users |-> users] ELSE [res |-> Ok(ToUserInfo(CreateUser([id |-> nextUser, email |-> req.email, password_hash |-> Hash(req.password).val, name |-> req.name], t).val)), users |-> users \cup {CreateUser([id |-> nextUser, email |-> req.email, password_hash |-> Hash(req.password).val, name |-> req.name], t).val}]

LoginFor(user, req, t) == IF Verify(req.password, user.password_hash) = "mismatch" THEN Fail(ErrInvalidCredentials) ELSE IF Verify(req.password, user.password_hash) # "ok" THEN Fail(ErrInternal) ELSE Ok([token |-> GenerateToken(user.id, user.email, t).Token, expires_at |-> GenerateToken(user.id, user.email, t).ExpiresAt, user |-> ToUserInfo(user)])

LoginSvc_UnknownEmailNotFound(req, t) == IF GetUserByEmail(req.email) = {} THEN Fail(NewAppError(CodeNotFound, "User not found", 404, Some(Errorf("user with ID not found")))) ELSE LoginFor(CHOOSE u \in GetUserByEmail(req.email) : TRUE, req, t)

LoginSvc(req, t) == IF GetUserByEmail(req.email) = {} THEN Fail(ErrInvalidCredentials) ELSE LoginFor(CHOOSE u \in GetUserByEmail(req.email) : TRUE, req, t)

RefreshFor_NoLookup(tokenResp, t) == IF ~ValidateToken(tokenResp.Token, t).ok THEN Fail(ErrInternal) ELSE Ok([token |-> tokenResp.Token, expires_at |-> tokenResp.ExpiresAt, user |-> [id |-> tokenResp.Token.user_id, email |-> tokenResp.Token.email]])

RefreshFor(tokenResp, t) == IF ~ValidateToken(tokenResp.Token, t).ok THEN Fail(ErrInternal) ELSE IF GetUserByID(ValidateToken(tokenResp.Token, t).val.user_id) = {} THEN Fail(NewAppError(CodeNotFound, "User not found", 404, Some(Errorf("user with ID not found")))) ELSE Ok([token |-> tokenResp.Token, expires_at |-> tokenResp.ExpiresAt, user |-> ToUserInfo(CHOOSE u \in GetUserByID(ValidateToken(tokenResp.Token, t).val.user_id) : TRUE)])

RefreshSvc(token, t) == IF ~RefreshToken(token, t).ok THEN Fail(NewAppError(CodeUnauthorized, "Invalid or expired token", 401, Some(RefreshToken(token, t).err))) ELSE RefreshFor(RefreshToken(token, t).val, t)

\* The tokens a client holds: it keeps the token of a response while it
\* has room for it.
Keep(tokenResp) == IF Cardinality(issued) < MaxTokens THEN issued \cup {tokenResp} ELSE issued

\* -------------------------------------------------------- auth endpoints
Register(req) ==
    /\ IF ~validateStruct(req).ok
       THEN /\ resp' = JSONError("Register", validateStruct(req).err)
            /\ UNCHANGED <<now, users, nextUser>>
       ELSE IF ~RegisterSvc(req, now + 1).res.ok
       THEN /\ resp' = JSONError("Register", RegisterSvc(req, now + 1).res.err)
            /\ users' = RegisterSvc(req, now + 1).users
            /\ UNCHANGED <<now, nextUser>>
       ELSE /\ now < MaxTime
            /\ nextUser <= MaxUsers
            /\ resp' = JSON("Register", req, 201, RegisterSvc(req, now + 1).res.val)
            /\ users' = RegisterSvc(req, now + 1).users
            /\ nextUser' = nextUser + 1
            /\ now' = now + 1
    /\ errValidation' = IF ~validateStruct(req).ok THEN Receiver(errValidation, formatValidationErrors(req)) ELSE errValidation
    /\ UNCHANGED <<expiryHours, todos, nextTodo, issued, inflight, server>>

Login(req) ==
    /\ IF ~validateLogin(req).ok
       THEN /\ resp' = JSONError("Login", validateLogin(req).err)
            /\ UNCHANGED issued
       ELSE IF ~LoginSvc(req, now).ok
       THEN /\ resp' = JSONError("Login", LoginSvc(req, now).err)
            /\ UNCHANGED issued
       ELSE /\ resp' = JSON("Login", req, 200, LoginSvc(req, now).val)
            /\ issued' = Keep([Token |-> LoginSvc(req, now).val.token, ExpiresAt |-> LoginSvc(req, now).val.expires_at])
    /\ errValidation' = IF ~validateLogin(req).ok THEN Receiver(errValidation, formatLoginErrors(req)) ELSE errValidation
    /\ UNCHANGED <<now, expiryHours, users, todos, nextUser, nextTodo, inflight, server>>

Refresh(token) ==
    /\ IF ~RefreshSvc(token, now).ok
       THEN /\ resp' = JSONError("Refresh", RefreshSvc(token, now).err)
            /\ UNCHANGED issued
       ELSE /\ resp' = JSON("Refresh", token, 200, RefreshSvc(token, now).val)
            /\ issued' = Keep([Token |-> RefreshSvc(token, now).val.token, ExpiresAt |-> RefreshSvc(token, now).val.expires_at])
    /\ UNCHANGED <<now, expiryHours, users, todos, nextUser, nextTodo, inflight, server, errValidation>>

\* An Authorization header is the sequence of its parts between spaces, as
\* strings.Split gives them; the empty header has none.
BearerHeader(token) == <<"Bearer", token>>

\* Auth.Authenticate, the middleware in front of the todo routes: the error
\* it answers itself, or the claims of the token it hands on.
AuthenticateRequest_AnyScheme(header, t) == IF header = <<>> THEN Fail(ErrUnauthorized) ELSE IF Len(header) # 2 THEN Fail(NewAppError(CodeUnauthorized, "Invalid authorization header format", 401, None)) ELSE IF ~ValidateToken(header[2], t).ok THEN Fail(NewAppError(CodeUnauthorized, "Invalid or expired token", 401, Some(ValidateToken(header[2], t).err))) ELSE Ok(ValidateToken(header[2], t).val)

AuthenticateRequest(header, t) == IF header = <<>> THEN Fail(ErrUnauthorized) ELSE IF Len(header) # 2 \/ header[1] # "Bearer" THEN Fail(NewAppError(CodeUnauthorized, "Invalid authorization header format", 401, None)) ELSE IF ~ValidateToken(header[2], t).ok THEN Fail(NewAppError(CodeUnauthorized, "Invalid or expired token", 401, Some(ValidateToken(header[2], t).err))) ELSE Ok(ValidateToken(header[2], t).val)

\* A request with a Bearer header that ends at the middleware or passes it
\* with the identity of the token.
Authenticate(token) ==
    /\ IF ~AuthenticateRequest(BearerHeader(token), now).ok
       THEN resp' = JSONError("Authenticate", AuthenticateRequest(BearerHeader(token), now).err)
       ELSE resp' = JSON("Authenticate", token, 200, [user_id |-> AuthenticateRequest(BearerHeader(token), now).val.user_id, email |-> AuthenticateRequest(BearerHeader(token), now).val.email])
    /\ UNCHANGED <<now, expiryHours, users, todos, nextUser, nextTodo, issued, inflight, server, errValidation>>

\* UserRepository.Delete: the todos of the user go with it (ON DELETE
\* CASCADE).
DeleteUser(id) ==
    /\ GetUserByID(id) # {}
    /\ users' = users \ GetUserByID(id)
    /\ todos' = {t \in todos : t.user_id # id}
    /\ resp' = JSON("DeleteUser", id, 200, None)
    /\ UNCHANGED <<now, expiryHours, nextUser, nextTodo, issued, inflight, server, errValidation>>

Tick ==
    /\ now < MaxTime
    /\ now' = now + 1
    /\ UNCHANGED <<expiryHours, users, todos, nextUser, nextTodo, issued, resp, inflight, server, errValidation>>

\* ------------------------------------------------------------ todo store
GetTodoByID(id) == {t \in todos : t.id = id}

\* INSERT INTO todos: user_id REFERENCES users(id), created_at and
\* updated_at default to NOW().
CreateTodo_NoForeignKey(todo, t) == IF \E x \in todos : x.id = todo.id THEN Fail(Errorf("failed to create todo")) ELSE Ok([id |-> todo.id, user_id |-> todo.user_id, title |-> todo.title, description |-> todo.description, completed |-> todo.completed, created_at |-> t, updated_at |-> t])

CreateTodo(todo, t) == IF (\E x \in todos : x.id = todo.id) \/ GetUserByID(todo.user_id) = {} THEN Fail(Errorf("failed to create todo")) ELSE Ok([id |-> todo.id, user_id |-> todo.user_id, title |-> todo.title, description |-> todo.description, completed |-> todo.completed, created_at |-> t, updated_at |-> t])

COALESCE(arg, old) == IF arg = None THEN old ELSE arg[1]

\* UPDATE todos SET ... = COALESCE(arg, column), updated_at = NOW()
\* WHERE id = arg RETURNING *: the row after the statement.
UpdateTodo_MovesOwner(params, old, t) == [id |-> old.id, user_id |-> (old.user_id % MaxUsers) + 1, title |-> COALESCE(params.title, old.title), description |-> IF params.description = None THEN old.description ELSE params.description, completed |-> COALESCE(params.completed, old.completed), created_at |-> old.created_at, updated_at |-> t]

UpdateTodo(params, old, t) == [id |-> old.id, user_id |-> old.user_id, title |-> COALESCE(params.title, old.title), description |-> IF params.description = None THEN old.description ELSE params.description, completed |-> COALESCE(params.completed, old.completed), created_at |-> old.created_at, updated_at |-> t]

\* TodoRepository.Update: title and completed always go as valid values,
\* description only when the todo has one.
UpdateParams_EmptyDescription(todo) == [id |-> todo.id, title |-> Some(todo.title), description |-> IF todo.description = None THEN Some("") ELSE todo.description, completed |-> Some(todo.completed)]

UpdateParams_TitleAbsent(todo) == [id |-> todo.id, title |-> None, description |-> todo.description, completed |-> Some(todo.completed)]

UpdateParams(todo) == [id |-> todo.id, title |-> Some(todo.title), description |-> todo.description, completed |-> Some(todo.completed)]

RECURSIVE OrderByCreatedAtDesc(_)

OrderByCreatedAtDesc(rows) == IF rows = {} THEN <<>> ELSE LET first == CHOOSE r \in rows : \A o \in rows : o.created_at <= r.created_at IN <<first>> \o OrderByCreatedAtDesc(rows \ {first})

ListTodosByUserID_AllOwners(userID) == OrderByCreatedAtDesc(todos)

ListTodosByUserID(userID) == OrderByCreatedAtDesc({t \in todos : t.user_id = userID})

\* A Go slice: nil or not, and its elements.
Slice(isNil, elems) == [nil |-> isNil, elems |-> elems]

\* TodoRepository.ListByUserID: the postgres repository always makes a
\* slice; nilOnEmpty is a repository behind the same interface that gives
\* nil when no row matches.
ListByUserID(userID, nilOnEmpty) == Slice(nilOnEmpty /\ ListTodosByUserID(userID) = <<>>, ListTodosByUserID(userID))

\* ---------------------------------------------------------- todo service
CreateSvc_Completed(userID, req, t) == LET todo == [id |-> nextTodo, user_id |-> userID, title |-> req.title, description |-> req.description, completed |-> TRUE] created == CreateTodo(todo, t) IN IF ~created.ok THEN [res |-> Fail(ErrInternal), todos |-> todos] ELSE [res |-> Ok(created.val), todos |-> todos \cup {created.val}]

CreateSvc(userID, req, t) == LET todo == [id |-> nextTodo, user_id |-> userID, title |-> req.title, description |-> req.description, completed |-> FALSE] created == CreateTodo(todo, t) IN IF ~created.ok THEN [res |-> Fail(ErrInternal), todos |-> todos] ELSE [res |-> Ok(created.val), todos |-> todos \cup {created.val}]

GetByIDSvc_HidesForeign(userID, todoID) == IF {t \in GetTodoByID(todoID) : t.user_id = userID} = {} THEN Fail(NewAppError(CodeNotFound, "Todo not found", 404, Some(Errorf("todo with ID not found")))) ELSE Ok(CHOOSE t \in GetTodoByID(todoID) : TRUE)

GetByIDSvc(userID, todoID) == IF GetTodoByID(todoID) = {} THEN Fail(NewAppError(CodeNotFound, "Todo not found", 404, Some(Errorf("todo with ID not found")))) ELSE LET todo == CHOOSE t \in GetTodoByID(todoID) : TRUE IN IF todo.user_id # userID THEN Fail(ErrForbidden) ELSE Ok(todo)

ListSvc_NoNormalise(userID, nilOnEmpty) == Ok(ListByUserID(userID, nilOnEmpty))

ListSvc(userID, nilOnEmpty) == LET found == ListByUserID(userID, nilOnEmpty) IN IF found.nil THEN Ok(Slice(FALSE, <<>>)) ELSE Ok(found)

\* The fields of the request that are present overwrite the todo read.
Merge(todo, req) == [todo EXCEPT !.title = COALESCE(req.title, @), !.description = IF req.description = None THEN @ ELSE req.description, !.completed = COALESCE(req.completed, @)]

UpdateSvc(userID, todoID, req, t) == LET got == GetByIDSvc(userID, todoID) IN IF ~got.ok THEN [res |-> got, todos |-> todos] ELSE LET todo == Merge(got.val, req) row == UpdateTodo(UpdateParams(todo), CHOOSE x \in GetTodoByID(todoID) : TRUE, t) IN [res |-> Ok([todo EXCEPT !.updated_at = row.updated_at]), todos |-> (todos \ GetTodoByID(todoID)) \cup {row}]

DeleteSvc_KeepsRow(userID, todoID) == LET got == GetByIDSvc(userID, todoID) IN IF ~got.ok THEN [res |-> got, todos |-> todos] ELSE [res |-> Ok(None), todos |-> todos]

DeleteSvc_DeletesFirst(userID, todoID) == LET got == GetByIDSvc(userID, todoID) IN [res |-> IF ~got.ok THEN got ELSE Ok(None), todos |-> todos \ GetTodoByID(todoID)]

DeleteSvc(userID, todoID) == LET got == GetByIDSvc(userID, todoID) IN IF ~got.ok THEN [res |-> got, todos |-> todos] ELSE [res |-> Ok(None), todos |-> todos \ GetTodoByID(todoID)]

\* -------------------------------------------------------- todo endpoints
\* userID is the identity the middleware put into the request context.
Create(userID, body) ==
    LET req == decodeJSON(body)
        r == CreateSvc(userID, req, now + 1)
    IN  /\ IF ~r.res.ok
           THEN /\ resp' = JSONError("Create", r.res.err)
                /\ todos' = r.todos
                /\ UNCHANGED <<now, nextTodo>>
           ELSE /\ now < MaxTime
                /\ nextTodo <= MaxTodos
                /\ resp' = JSON("Create", [user_id |-> userID, req |-> req], 201, r.res.val)
                /\ todos' = r.todos
                /\ nextTodo' = nextTodo + 1
                /\ now' = now + 1
        /\ UNCHANGED <<expiryHours, users, nextUser, issued, inflight, server, errValidation>>

GetByID(userID, todoID) ==
    LET r == GetByIDSvc(userID, todoID)
    IN  /\ IF ~r.ok
           THEN resp' = JSONError("GetByID", r.err)
           ELSE resp' = JSON("GetByID", [user_id |-> userID, id |-> todoID], 200, r.val)
        /\ UNCHANGED <<now, expiryHours, users, todos, nextUser, nextTodo, issued, inflight, server, errValidation>>

List(userID, nilOnEmpty) ==
    /\ resp' = JSON("List", [user_id |-> userID, nilOnEmpty |-> nilOnEmpty], 200, ListSvc(userID, nilOnEmpty).val)
    /\ UNCHANGED <<now, expiryHours, users, todos, nextUser, nextTodo, issued, inflight, server, errValidation>>

Update(userID, todoID, req) ==
    LET r == UpdateSvc(userID, todoID, req, now + 1)
    IN  /\ IF ~r.res.ok
           THEN /\ resp' = JSONError("Update", r.res.err)
                /\ todos' = r.todos
                /\ UNCHANGED now
           ELSE /\ now < MaxTime
                /\ resp' = JSON("Update", [user_id |-> userID, id |-> todoID, req |-> req], 200, r.res.val)
                /\ todos' = r.todos
                /\ now' = now + 1
        /\ UNCHANGED <<expiryHours, users, nextUser, nextTodo, issued, inflight, server, errValidation>>

Delete(userID, todoID) ==
    LET r == DeleteSvc(userID, todoID)
    IN  /\ IF ~r.res.ok
           THEN /\ resp' = JSONError("Delete", r.res.err)
                /\ todos' = r.todos
           ELSE /\ resp' = JSON("Delete", [user_id |-> userID, id |-> todoID], 200, [message |-> "Todo deleted successfully"])
                /\ todos' = r.todos
        /\ UNCHANGED <<now, expiryHours, users, nextUser, nextTodo, issued, inflight, server, errValidation>>

\* ------------------------------------------------------ protected routes
\* r.Use(authMiddleware.Authenticate) on /todos: the middleware answers 401
\* itself and the handler is not run, or the handler runs with the user id
\* of the token as the caller.
Rejected(route, header) ==
    /\ resp' = JSONError(route, AuthenticateRequest(header, now).err)
    /\ UNCHANGED <<now, expiryHours, users, todos, nextUser, nextTodo, issued, inflight, server, errValidation>>

\* middleware.GetUserID: the user id the middleware put into the context.
GetUserID(header) == AuthenticateRequest(header, now).val.user_id

PostTodos(header, req) == IF ~AuthenticateRequest(header, now).ok THEN Rejected("Create", header) ELSE Create(GetUserID(header), req)

GetTodos(header) == IF ~AuthenticateRequest(header, now).ok THEN Rejected("List", header) ELSE List(GetUserID(header), FALSE)

GetTodo(header, todoID) == IF ~AuthenticateRequest(header, now).ok THEN Rejected("GetByID", header) ELSE GetByID(GetUserID(header), todoID)

PatchTodo(header, todoID, req) == IF ~AuthenticateRequest(header, now).ok THEN Rejected("Update", header) ELSE Update(GetUserID(header), todoID, req)

DeleteTodo(header, todoID) == IF ~AuthenticateRequest(header, now).ok THEN Rejected("Delete", header) ELSE Delete(GetUserID(header), todoID)

\* A token with the claims of token and another user id, signed with a key
\* that is not the server's.
ForgedToken(token) == [token EXCEPT !.user_id = (@ % MaxUsers) + 1, !.key = "other-secret"]

\* The signing methods a token header can name, and the keys a token can be
\* signed with: the server's, another one, and none for the method "none".
Algorithms == {SigningMethod, "HS384", "none"}

Keys == {Secret, "other-secret", ""}

\* The token with the claims of token under another signing method and key.
SignedAs(token, alg, key) == [token EXCEPT !.alg = alg, !.key = key]

\* The token a client got last.
LatestToken == {tr.Token : tr \in {x \in issued : \A y \in issued : y.ExpiresAt <= x.ExpiresAt}}

\* The headers a client can send: none, one without a token, a token it
\* holds, and its latest token under another scheme, forged, or under
\* another signing method.
AuthHeaders == {<<>>, <<"Bearer">>} \cup {BearerHeader(tr.Token) : tr \in issued} \cup {<<"Basic", token>> : token \in LatestToken} \cup {BearerHeader(ForgedToken(token)) : token \in LatestToken} \cup {BearerHeader(SignedAs(token, "HS384", Secret)) : token \in LatestToken} \cup {BearerHeader(SignedAs(token, "none", "")) : token \in LatestToken}

\* ------------------------------------------------------------ error paths
\* The handlers, each of which ends an error path in JSONError.
Handlers == {"Register", "Login", "Refresh", "Create", "List", "GetByID", "Update", "Delete"}

\* The AppErrors the program builds: the predefined ones and the ones made
\* with NewAppError and WithDetails.
AppErrors == {ErrInvalidCredentials, ErrUserExists, ErrNotFound, ErrForbidden, ErrUnauthorized, ErrInternal, ErrValidation, ErrBadRequest} \cup {NewAppError(CodeUnauthorized, "Invalid authorization header format", 401, None), NewAppError(CodeUnauthorized, "Invalid or expired token", 401, Some(Errorf("failed to parse token"))), NewAppError(CodeNotFound, "User not found", 404, Some(Errorf("user with ID not found"))), NewAppError(CodeNotFound, "Todo not found", 404, Some(Errorf("todo with ID not found"))), NewAppError(CodeBadRequest, "Invalid JSON request body", 400, Some(Errorf("unexpected EOF"))), NewAppError(CodeBadRequest, "Invalid todo ID", 400, Some(Errorf("invalid UUID length")))} \cup {validateStruct(req).err : req \in {r \in RegisterPayloads : ~validateStruct(r).ok}}

\* Errors that are no AppError: what the repositories, the hasher and the
\* token manager return.
PlainErrors == {Errorf("failed to create user"), Errorf("failed to get user by email"), Errorf("failed to get todo by ID"), Errorf("failed to hash password"), Errorf("failed to sign token")}

\* A handler's error path: the error goes to JSONError and nothing else
\* happens.
RespondError(op, e) ==
    /\ resp' = JSONError(op, e)
    /\ UNCHANGED <<now, expiryHours, users, todos, nextUser, nextTodo, issued, inflight, server, errValidation>>

ServiceFault_WrapsCause(cause) == NewAppError(CodeInternal, cause.error, 500, Some(cause))

\* What a service returns when a call to the store, the hasher or the
\* token manager fails with cause: the cause is logged, ErrInternal returned.
ServiceFault(cause) == ErrInternal

StoreFault(op, cause) ==
    /\ resp' = JSONError(op, ServiceFault(cause))
    /\ UNCHANGED <<now, expiryHours, users, todos, nextUser, nextTodo, issued, inflight, server, errValidation>>

\* Recover.Handle: the envelope written after a panic with any value.
RecoverHandle(op, panicValue) == [op |-> op, success |-> FALSE, status |-> 500, error |-> [code |-> CodeInternal, message |-> "An unexpected error occurred", details |-> <<>>]]

Panic(op, panicValue) ==
    /\ resp' = RecoverHandle(op, panicValue)
    /\ UNCHANGED <<now, expiryHours, users, todos, nextUser, nextTodo, issued, inflight, server, errValidation>>

\* ---------------------------------------------------- requests in flight
\* Register requests that run side by side: each is served by its own
\* goroutine, and between the SELECT of GetByEmail and the INSERT of Create
\* the other ones may run.  A request in flight keeps what it has read.
Requests == 1..MaxRequests

Idle == [pc |-> "idle"]

Done(r, response) == [pc |-> "done", req |-> r.req, existing |-> r.existing, resp |-> response]

\* AuthService.Register from the line after userRepo.GetByEmail returned:
\* existing says whether it returned a user.
RegisterAfterLookup(req, existing, t) == LET user == [id |-> nextUser, email |-> req.email, password_hash |-> Hash(req.password).val, name |-> req.name] IN IF existing THEN [res |-> Fail(ErrUserExists), users |-> users] ELSE IF ~Hash(req.password).ok THEN [res |-> Fail(ErrInternal), users |-> users] ELSE IF ~CreateUser(user, t).ok THEN [res |-> Fail(ErrInternal), users |-> users] ELSE [res |-> Ok(ToUserInfo(CreateUser(user, t).val)), users |-> users \cup {CreateUser(user, t).val}]

\* AuthHandler.Register up to and including the SELECT of GetByEmail.
RegisterLookup(p, req) ==
    /\ server.phase = "serving"
    /\ inflight[p] = Idle
    /\ validateStruct(req).ok
    /\ inflight' = [inflight EXCEPT ![p] = [pc |-> "looked", req |-> req, existing |-> GetUserByEmail(req.email) # {}]]
    /\ UNCHANGED <<now, expiryHours, users, todos, nextUser, nextTodo, issued, resp, server, errValidation>>

\* The rest of the request: the hash, the INSERT and the response.
RegisterInsert(p) ==
    LET r == RegisterAfterLookup(inflight[p].req, inflight[p].existing, now + 1)
    IN  /\ server.phase \in {"serving", "draining"}
        /\ inflight[p].pc = "looked"
        /\ IF ~r.res.ok
           THEN /\ inflight' = [inflight EXCEPT ![p] = Done(@, JSONError("Register", r.res.err))]
                /\ UNCHANGED <<now, users, nextUser>>
           ELSE /\ now < MaxTime
                /\ nextUser <= MaxUsers
                /\ inflight' = [inflight EXCEPT ![p] = Done(@, JSON("Register", @.req, 201, r.res.val))]
                /\ users' = r.users
                /\ nextUser' = nextUser + 1
                /\ now' = now + 1
        /\ UNCHANGED <<expiryHours, todos, nextTodo, issued, resp, server, errValidation>>

\* The client has the response; the connection serves the next request.
Receive(p) ==
    /\ inflight[p].pc = "done"
    /\ resp' = inflight[p].resp
    /\ inflight' = [inflight EXCEPT ![p] = Idle]
    /\ UNCHANGED <<now, expiryHours, users, todos, nextUser, nextTodo, issued, server, errValidation>>

\* ------------------------------------------------- validation in flight
\* AuthHandler.Register up to the return of validateStruct with an error:
\* the request holds the AppError that WithDetails made from the shared
\* ErrValidation.
RegisterInvalid(p, req) ==
    /\ server.phase = "serving"
    /\ inflight[p] = Idle
    /\ ~validateStruct(req).ok
    /\ inflight' = [inflight EXCEPT ![p] = [pc |-> "invalid", req |-> req, err |-> validateStruct(req).err]]
    /\ errValidation' = Receiver(errValidation, formatValidationErrors(req))
    /\ UNCHANGED <<now, expiryHours, users, todos, nextUser, nextTodo, issued, resp, server>>

\* The rest of the request: JSONError writes the error the request holds.
RegisterReject(p) ==
    /\ inflight[p].pc = "invalid"
    /\ inflight' = [inflight EXCEPT ![p] = [pc |-> "done", req |-> @.req, resp |-> JSONError("Register", @.err)]]
    /\ UNCHANGED <<now, expiryHours, users, todos, nextUser, nextTodo, issued, resp, server, errValidation>>

\* --------------------------------------------------------------- shutdown
\* main after the server has started: it serves until a signal arrives,
\* then srv.Shutdown closes the listener and waits for the requests in
\* flight under a context with a timeout; waited counts the seconds of that
\* wait.  The pool is open, closed by the deferred pool.Close, or dropped
\* with the process when os.Exit ends it.
ShutdownTimeout == 30

Serving == [phase |-> "serving", pool |-> "open", waited |-> 0]

\* The requests whose handler has not returned.
Running == {p \in Requests : inflight[p].pc = "looked"}

\* The results srv.Shutdown(ctx) can return after waited seconds: nil once
\* no request is in flight, the error of the context once its deadline has
\* passed; with neither it goes on polling.
Shutdown_NoGrace(running, waited) == (IF running = {} THEN {"nil"} ELSE {}) \cup (IF running # {} \/ waited >= ShutdownTimeout THEN {"context deadline exceeded"} ELSE {})

Shutdown(running, waited) == (IF running = {} THEN {"nil"} ELSE {}) \cup (IF waited >= ShutdownTimeout THEN {"context deadline exceeded"} ELSE {})

\* <-quit: SIGINT or SIGTERM arrives and srv.Shutdown closes the listener.
Signal ==
    /\ server.phase = "serving"
    /\ server' = [server EXCEPT !.phase = "draining"]
    /\ UNCHANGED <<now, expiryHours, users, todos, nextUser, nextTodo, issued, resp, inflight, errValidation>>

\* A second of the wait passes.
GraceSecond ==
    /\ server.phase = "draining"
    /\ server.waited < ShutdownTimeout
    /\ server' = [server EXCEPT !.waited = @ + 1]
    /\ UNCHANGED <<now, expiryHours, users, todos, nextUser, nextTodo, issued, resp, inflight, errValidation>>

\* srv.Shutdown returned nil: main returns and the deferred pool.Close runs.
MainReturns ==
    /\ server.phase = "draining"
    /\ "nil" \in Shutdown(Running, server.waited)
    /\ server' = [server EXCEPT !.phase = "stopped", !.pool = "closed"]
    /\ UNCHANGED <<now, expiryHours, users, todos, nextUser, nextTodo, issued, resp, inflight, errValidation>>

\* srv.Shutdown returned the error of the context: os.Exit(1) ends the
\* process at once, no deferred call runs, and the handlers still running
\* never return.
ForcedExit ==
    /\ server.phase = "draining"
    /\ "context deadline exceeded" \in Shutdown(Running, server.waited)
    /\ server' = [server EXCEPT !.phase = "exited", !.pool = "dropped"]
    /\ UNCHANGED <<now, expiryHours, users, todos, nextUser, nextTodo, issued, resp, inflight, errValidation>>

\* Update and Delete requests on todos that run side by side: between the
\* SELECT of TodoService.GetByID and the UPDATE or DELETE that follows it
\* the other requests may run.  An Update in flight keeps the todo it read
\* with the fields of its request written over it.
Finished(response) == [pc |-> "done", resp |-> response]

\* TodoService.Update from the line after GetByID returned todo: every
\* column goes to the UPDATE as a valid value; when no row has the id the
\* statement gives ErrNoRows, which TodoRepository.Update turns into nil.
UpdateAfterRead(todo, t) == LET rows == GetTodoByID(todo.id) IN IF rows = {} THEN [res |-> Ok(todo), todos |-> todos] ELSE LET row == UpdateTodo(UpdateParams(todo), CHOOSE x \in rows : TRUE, t) IN [res |-> Ok([todo EXCEPT !.updated_at = row.updated_at]), todos |-> (todos \ rows) \cup {row}]

\* TodoHandler.Update up to and including the SELECT and the merge.
UpdateRead(p, userID, todoID, req) ==
    LET got == GetByIDSvc(userID, todoID)
    IN  /\ inflight[p] = Idle
        /\ inflight' = [inflight EXCEPT ![p] = IF ~got.ok THEN Finished(JSONError("Update", got.err)) ELSE [pc |-> "read", op |-> "Update", in |-> [user_id |-> userID, id |-> todoID, req |-> req], todo |-> Merge(got.val, req)]]
        /\ UNCHANGED <<now, expiryHours, users, todos, nextUser, nextTodo, issued, resp, server, errValidation>>

\* The rest of the request: the UPDATE and the response.
UpdateWrite(p) ==
    LET r == UpdateAfterRead(inflight[p].todo, now + 1)
    IN  /\ inflight[p].pc = "read"
        /\ inflight[p].op = "Update"
        /\ inflight' = [inflight EXCEPT ![p] = Finished(JSON("Update", @.in, 200, r.res.val))]
        /\ IF r.todos = todos
           THEN UNCHANGED <<now, todos>>
           ELSE /\ now < MaxTime
                /\ todos' = r.todos
                /\ now' = now + 1
        /\ UNCHANGED <<expiryHours, users, nextUser, nextTodo, issued, resp, server, errValidation>>

\* TodoHandler.Delete up to and including the SELECT of GetByID.
DeleteRead(p, userID, todoID) ==
    LET got == GetByIDSvc(userID, todoID)
    IN  /\ inflight[p] = Idle
        /\ inflight' = [inflight EXCEPT ![p] = IF ~got.ok THEN Finished(JSONError("Delete", got.err)) ELSE [pc |-> "read", op |-> "Delete", in |-> [user_id |-> userID, id |-> todoID]]]
        /\ UNCHANGED <<now, expiryHours, users, todos, nextUser, nextTodo, issued, resp, server, errValidation>>

\* The rest of the request: DELETE FROM todos WHERE id, which succeeds on
\* no row as well, and the response.
DeleteWrite(p) ==
    /\ inflight[p].pc = "read"
    /\ inflight[p].op = "Delete"
    /\ inflight' = [inflight EXCEPT ![p] = Finished(JSON("Delete", @.in, 200, [message |-> "Todo deleted successfully"]))]
    /\ todos' = todos \ GetTodoByID(inflight[p].in.id)
    /\ UNCHANGED <<now, expiryHours, users, nextUser, nextTodo, issued, resp, server, errValidation>>

\* -------------------------------------------------------- specifications
NoResponse == [op |-> "none", in |-> None, success |-> TRUE, status |-> 0, data |-> None]

Init ==
    /\ now = 0
    /\ expiryHours \in 1..MaxExpiryHours
    /\ users = {}
    /\ todos = {}
    /\ nextUser = 1
    /\ nextTodo = 1
    /\ issued = {}
    /\ resp = NoResponse
    /\ inflight = [p \in Requests |-> Idle]
    /\ server = Serving
    /\ errValidation = ErrValidation

\* The auth endpoints, the middleware and the clock.
NextAuth ==
    \/ \E req \in RegisterRequests : Register(req)
    \/ \E req \in LoginRequests : Login(req)
    \/ \E tr \in issued : Refresh(tr.Token)
    \/ \E tr \in issued : Authenticate(tr.Token)
    \/ \E id \in UserIds : DeleteUser(id)
    \/ Tick

SpecAuth == Init /\ [][NextAuth]_vars

\* The todo service with the users it needs.
NextTodo ==
    \/ \E req \in {r \in RegisterRequests : r.password = "password123"} : Register(req)
    \/ \E u \in UserIds, body \in CreateBodies : Create(u, body)
    \/ \E u \in UserIds, id \in TodoIds : GetByID(u, id)
    \/ \E u \in UserIds, nilOnEmpty \in BOOLEAN : List(u, nilOnEmpty)
    \/ \E u \in UserIds, id \in TodoIds, req \in UpdateTodoRequests : Update(u, id, req)
    \/ \E u \in UserIds, id \in TodoIds : Delete(u, id)

SpecTodo == Init /\ [][NextTodo]_vars

\* The whole API as a client sees it: the auth endpoints, the todo routes
\* behind the middleware; the clock moves with the statements of the store,
\* and a client logs in when it holds no token that is still accepted.
NextApi ==
    \/ \E req \in {r \in RegisterRequests : validateStruct(r).ok} : Register(req)
    \/ \E req \in {r \in LoginRequests : r.password = "password123" /\ ~\E tr \in issued : tr.Token.email = r.email /\ ValidateToken(tr.Token, now).ok} : Login(req)
    \/ \E h \in AuthHeaders, req \in {r \in CreateTodoRequests : r.description = None} : PostTodos(h, req)
    \/ \E h \in AuthHeaders : GetTodos(h)
    \/ \E h \in AuthHeaders, id \in TodoIds : GetTodo(h, id)
    \/ \E h \in AuthHeaders, id \in TodoIds : PatchTodo(h, id, OnlyCompleted(TRUE))
    \/ \E h \in AuthHeaders, id \in TodoIds : DeleteTodo(h, id)

SpecApi == Init /\ [][NextApi]_vars

\* The error paths: the auth endpoints with every body that decodes, and
\* every error a handler can hand to JSONError.
NextError ==
    \/ \E req \in RegisterPayloads : Register(req)
    \/ \E req \in LoginPayloads : Login(req)
    \/ \E op \in Handlers, e \in AppErrors \cup PlainErrors : RespondError(op, e)
    \/ \E op \in Handlers, cause \in PlainErrors : StoreFault(op, cause)
    \/ \E op \in Handlers, cause \in PlainErrors : Panic(op, cause.error)

SpecError == Init /\ [][NextError]_vars

\* Register requests in flight side by side on a store without faults.
NextRace ==
    \/ \E p \in Requests, req \in {r \in RegisterRequests : Hash(r.password).ok} : RegisterLookup(p, req)
    \/ \E p \in Requests : RegisterInsert(p)
    \/ \E p \in Requests : Receive(p)

SpecRace == Init /\ [][NextRace]_vars

\* A request that changes one field of a todo.
OnlyTitle(title) == [title |-> Some(title), description |-> None, completed |-> None]

\* Update and Delete requests on todos in flight side by side, each on a
\* connection of its own, made by the stored user on the todos it created.
NextTodoRace ==
    \/ \E req \in {r \in RegisterRequests : r.password = "password123" /\ users = {}} : Register(req)
    \/ \E u \in {x \in UserIds : GetUserByID(x) # {}}, body \in {b \in CreateBodies : b.description = None /\ b.completed = None /\ b.user_id = None} : Create(u, body)
    \/ \E p \in Requests, u \in {x \in UserIds : GetUserByID(x) # {}}, id \in TodoIds, req \in {OnlyTitle(t) : t \in UpdateTitles} \cup {OnlyCompleted(TRUE)} : UpdateRead(p, u, id, req)
    \/ \E p \in Requests : UpdateWrite(p)
    \/ \E p \in Requests, u \in {x \in UserIds : GetUserByID(x) # {}}, id \in TodoIds : DeleteRead(p, u, id)
    \/ \E p \in Requests : DeleteWrite(p)

SpecTodoRace == Init /\ [][NextTodoRace]_vars

\* The server from start to exit, with Register requests in flight.
NextShutdown ==
    \/ \E p \in Requests, req \in {r \in RegisterRequests : r.email = "a@b.com" /\ r.password = "password123"} : RegisterLookup(p, req)
    \/ \E p \in Requests : RegisterInsert(p)
    \/ \E p \in Requests : Receive(p)
    \/ Signal
    \/ GraceSecond
    \/ MainReturns
    \/ ForcedExit

SpecShutdown == Init /\ [][NextShutdown]_vars

\* The store under every operation that reads or writes it: the auth
\* service, the removal of a user, and the todo routes called with the
\* tokens the clients hold.
NextStore ==
    \/ \E req \in {r \in RegisterRequests : r.password = "password123"} : Register(req)
    \/ \E req \in {r \in LoginRequests : r.password = "password123" /\ ~\E tr \in issued : tr.Token.email = r.email} : Login(req)
    \/ \E tr \in issued : Refresh(tr.Token)
    \/ \E id \in UserIds : DeleteUser(id)
    \/ \E tr \in issued, req \in {r \in CreateTodoRequests : r.description = None} : PostTodos(BearerHeader(tr.Token), req)
    \/ \E tr \in issued : GetTodos(BearerHeader(tr.Token))
    \/ \E tr \in issued, id \in TodoIds : GetTodo(BearerHeader(tr.Token), id)
    \/ \E tr \in issued, id \in TodoIds : PatchTodo(BearerHeader(tr.Token), id, OnlyCompleted(TRUE))
    \/ \E tr \in issued, id \in TodoIds : DeleteTodo(BearerHeader(tr.Token), id)

SpecStore == Init /\ [][NextStore]_vars

\* Requests that fail validation, side by side and one after the other.
NextValidate ==
    \/ \E p \in Requests, req \in {r \in RegisterPayloads : r.name \in Names} : RegisterInvalid(p, req)
    \/ \E p \in Requests : RegisterReject(p)
    \/ \E p \in Requests : Receive(p)
    \/ \E req \in LoginPayloads : Login(req)

SpecValidate == Init /\ [][NextValidate]_vars

\* ------------------------------------------------------------ properties
IsError(r, status, code) == ~r.success /\ r.status = status /\ r.error.code = code

TheTodo(rows, id) == CHOOSE t \in rows : t.id = id

IsFail(r, status, code) == ~r.ok /\ r.err.status = status /\ r.err.code = code

\* C1: GetByID, Update and Delete by a caller who is not the owner of an
\* existing todo answer FORBIDDEN (403), never NOT_FOUND; on a todo id that
\* is not stored they answer NOT_FOUND (404) whoever calls.
C1_AllThree(u, id, status, code) ==
    /\ IsFail(GetByIDSvc(u, id), status, code)
    /\ IsFail(DeleteSvc(u, id).res, status, code)
    /\ \A req \in UpdateTodoRequests : IsFail(UpdateSvc(u, id, req, now + 1).res, status, code)

C1_Answered ==
    (resp.op \in {"GetByID", "Update", "Delete"} /\ ~resp.success) =>
        \/ IsError(resp, 403, CodeForbidden) /\ todos # {}
        \/ IsError(resp, 404, CodeNotFound) /\ \E id \in TodoIds : GetTodoByID(id) = {}

C1_OwnershipBeforeAbsence ==
    /\ \A u \in UserIds, id \in TodoIds :
        /\ (\E t \in todos : t.id = id /\ t.user_id # u) => C1_AllThree(u, id, 403, CodeForbidden)
        /\ (GetTodoByID(id) = {}) => C1_AllThree(u, id, 404, CodeNotFound)
    /\ C1_Answered

C1_Witness == resp.op = "Delete" /\ IsError(resp, 403, CodeForbidden) /\ todos # {}

\* C8: an owner's Update that carries only `completed` keeps the stored
\* title and description, stores the requested completed, and the stored
\* and returned updated_at is later than the one before the call.
C8_Post(old, c, r) ==
    /\ r.res.ok
    /\ Cardinality({t \in r.todos : t.id = old.id}) = 1
    /\ TheTodo(r.todos, old.id).title = old.title
    /\ TheTodo(r.todos, old.id).description = old.description
    /\ TheTodo(r.todos, old.id).completed = c
    /\ TheTodo(r.todos, old.id).updated_at > old.updated_at
    /\ r.res.val = TheTodo(r.todos, old.id)
    /\ r.todos \ {r.res.val} = todos \ {old}

C8_Answered ==
    (resp.op = "Update" /\ resp.success /\ resp.in.req \in {OnlyCompleted(c) : c \in BOOLEAN}) =>
        /\ resp.status = 200
        /\ resp.data \in todos
        /\ resp.data.id = resp.in.id
        /\ Some(resp.data.completed) = resp.in.req.completed
        /\ resp.data.updated_at > resp.data.created_at
        /\ resp.data.updated_at <= now

C8_PartialUpdate ==
    /\ \A old \in todos, c \in BOOLEAN : C8_Post(old, c, UpdateSvc(old.user_id, old.id, OnlyCompleted(c), now + 1))
    /\ C8_Answered

C8_Witness == resp.op = "Update" /\ resp.success /\ resp.in.req = OnlyCompleted(TRUE) /\ resp.data.description = Some("d") /\ resp.data.completed /\ resp.data.updated_at > resp.data.created_at

\* C9: List(U) returns exactly the stored todos U owns, each once and none
\* of another owner, the most recently created first.
C9_Post(s, owned) ==
    /\ {s[i] : i \in 1..Len(s)} = owned
    /\ Len(s) = Cardinality(owned)
    /\ \A i, j \in 1..Len(s) : i < j => s[i].created_at > s[j].created_at

C9_ListOwnedNewestFirst == resp.op = "List" => C9_Post(resp.data.elems, {t \in todos : t.user_id = resp.in.user_id})

C9_Witness == resp.op = "List" /\ Len(resp.data.elems) = 2 /\ resp.data.elems[2].updated_at > resp.data.elems[1].created_at

\* C10: List for a user who owns no todo succeeds with an empty sequence
\* that is not nil, also when the repository gives nil for no rows.
C10_Post ==
    /\ resp.success
    /\ resp.status = 200
    /\ ~resp.data.nil
    /\ ({t \in todos : t.user_id = resp.in.user_id} = {}) => (resp.data = Slice(FALSE, <<>>))

C10_EmptyListNotNil == resp.op = "List" => C10_Post

C10_Witness == resp.op = "List" /\ resp.in.nilOnEmpty /\ resp.data.elems = <<>> /\ todos # {}

\* C2, as claimed: a token GenerateToken gave out with ExpiresAt E is
\* accepted at every instant up to and including E and rejected after it.
C2_AcceptedThroughExpiresAt == \A tr \in issued : ValidateToken(tr.Token, now).ok <=> now <= tr.ExpiresAt

\* C2, amended: the token is accepted at every instant from its issue up
\* to, but not including, E truncated to the whole second, and rejected at
\* that instant and at every later one.
C2_AcceptedUntilTruncatedExpiry ==
    /\ \A tr \in issued : ValidateToken(tr.Token, now).ok <=> now < NewNumericDate(tr.ExpiresAt)
    /\ (resp.op = "Authenticate" /\ resp.success) => resp.in.nbf <= now /\ resp.in \in {tr.Token : tr \in issued}
    /\ (resp.op = "Authenticate" /\ ~resp.success) => IsError(resp, 401, CodeUnauthorized) /\ \E tr \in issued : now >= NewNumericDate(tr.ExpiresAt)

C2_Witness == resp.op = "Authenticate" /\ IsError(resp, 401, CodeUnauthorized) /\ \E tr \in issued : issued = {tr} /\ now = tr.Token.exp /\ now < tr.ExpiresAt

\* C3: RefreshToken at instant t on a token ValidateToken accepts gives a
\* token with the user id and email of the input and the expiry t + TTL,
\* counted from t and not from the expiry of the input.
C3_Post(token, r) ==
    /\ r.ok
    /\ r.val.Token.user_id = token.user_id
    /\ r.val.Token.email = token.email
    /\ r.val.ExpiresAt = now + expiryHours * Hour
    /\ r.val.Token.exp = NewNumericDate(now + expiryHours * Hour)
    /\ ValidateToken(r.val.Token, now).ok

C3_Answered ==
    (resp.op = "Refresh" /\ resp.success) =>
        /\ resp.data.token.user_id = resp.in.user_id
        /\ resp.data.token.email = resp.in.email
        /\ resp.data.token.exp = NewNumericDate(resp.data.expires_at)
        /\ resp.data.expires_at <= now + expiryHours * Hour
        /\ resp.data.expires_at - expiryHours * Hour >= resp.in.nbf

C3_RefreshKeepsIdentityFreshExpiry ==
    /\ \A tr \in issued : ValidateToken(tr.Token, now).ok => C3_Post(tr.Token, RefreshToken(tr.Token, now))
    /\ C3_Answered

C3_Witness == resp.op = "Refresh" /\ resp.success /\ \E tr \in issued : tr.Token = resp.in /\ resp.data.expires_at > tr.ExpiresAt

\* C4: a refresh of a token whose expiry has passed gives no token:
\* RefreshToken fails and AuthService.Refresh answers UNAUTHORIZED (401),
\* however recently it expired and whether or not its user is still stored.
C4_Answered ==
    /\ (resp.op = "Refresh" /\ resp.success) => resp.in.exp > resp.data.expires_at - expiryHours * Hour
    /\ (resp.op = "Refresh" /\ IsError(resp, 401, CodeUnauthorized)) => \E tr \in issued : now >= tr.Token.exp

C4_ExpiredNeverRefreshed ==
    /\ \A tr \in issued : (now >= tr.Token.exp) => (~RefreshToken(tr.Token, now).ok /\ IsFail(RefreshSvc(tr.Token, now), 401, CodeUnauthorized))
    /\ C4_Answered

C4_Witness == resp.op = "Refresh" /\ IsError(resp, 401, CodeUnauthorized) /\ users = {} /\ \E tr \in issued : issued = {tr} /\ now = tr.Token.exp

\* C5: Login with an email no stored user has and Login with a stored
\* user's email and a wrong password give the same error: the same code
\* INVALID_CREDENTIALS, the same status 401 and the same message.
UnknownEmail(req) == GetUserByEmail(req.email) = {}

WrongPassword(req) == \E u \in GetUserByEmail(req.email) : Verify(req.password, u.password_hash) = "mismatch"

C5_Answered == (resp.op = "Login" /\ ~resp.success) => resp = JSONError("Login", ErrInvalidCredentials)

C5_LoginFailuresIndistinguishable ==
    /\ \A r1, r2 \in LoginRequests : (UnknownEmail(r1) /\ WrongPassword(r2)) =>
        /\ IsFail(LoginSvc(r1, now), 401, CodeInvalidCredentials)
        /\ LoginSvc(r1, now) = LoginSvc(r2, now)
        /\ JSONError("Login", LoginSvc(r1, now).err) = JSONError("Login", LoginSvc(r2, now).err)
    /\ C5_Answered

C5_Witness == resp.op = "Login" /\ IsError(resp, 401, CodeInvalidCredentials) /\ Cardinality(users) = 1

\* C6, as claimed: with no stored user of email e, Register with a valid
\* payload carrying e succeeds and stores exactly one new user with that
\* email; what it returns holds only id, email, name and creation time, and
\* no response of Register, Login or Refresh holds the password or its hash.
UserInfoFields == {"id", "email", "name", "created_at"}

C6_RegisterStep(req) == validateStruct(req).ok /\ GetUserByEmail(req.email) = {} /\ Register(req)

C6_Post(req) ==
    /\ resp'.success
    /\ resp'.status = 201
    /\ DOMAIN resp'.data = UserInfoFields
    /\ resp'.data.email = req.email
    /\ \E u \in users' \ users : u.email = req.email /\ users' = users \cup {u}

C6_NoSecretAnswered ==
    /\ (resp.op = "Register" /\ resp.success) => DOMAIN resp.data = UserInfoFields
    /\ (resp.op \in {"Login", "Refresh"} /\ resp.success) => (DOMAIN resp.data = {"token", "expires_at", "user"} /\ DOMAIN resp.data.user = UserInfoFields)

C6_ValidFreshRegisterSucceeds == [][\A req \in RegisterRequests : C6_RegisterStep(req) => C6_Post(req)]_vars /\ []C6_NoSecretAnswered

\* C7: once a user with email e is stored, every Register carrying e gives
\* the same USER_EXISTS (409) error and stores no user.
C7_Answered == (resp.op = "Register" /\ ~resp.success /\ resp.status = 409) => (resp = JSONError("Register", ErrUserExists) /\ users # {})

C7_DuplicateEmailRejected ==
    /\ \A req \in RegisterRequests : (GetUserByEmail(req.email) # {}) => RegisterSvc(req, now + 1) = [res |-> Fail(ErrUserExists), users |-> users]
    /\ \A e \in Emails : Cardinality(GetUserByEmail(e)) <= 1
    /\ C7_Answered

C7_Witness == resp.op = "Register" /\ IsError(resp, 409, CodeUserExists) /\ Cardinality(users) = 1

\* C11, as claimed: from the empty store, register with a valid payload,
\* login with the same credentials, create a todo with only a title, patch
\* it with only completed=true, delete it and get it answer, in this order,
\* 201 with id, email and name; 200 with a token; 201 with completed=false;
\* 200 with completed=true and the title unchanged; 200; 404 NOT_FOUND.
\* Each step is taken in the state the step before it left, with the token
\* of the login while it is accepted.
FlowToken(userID) == {tr.Token : tr \in {x \in issued : x.Token.user_id = userID /\ ValidateToken(x.Token, now).ok}}

C11_Register(req) ==
    (users = {} /\ todos = {} /\ validateStruct(req).ok /\ Register(req)) =>
        /\ resp'.success /\ resp'.status = 201
        /\ {"id", "email", "name"} \subseteq DOMAIN resp'.data
        /\ resp'.data.email = req.email /\ resp'.data.name = req.name

C11_Login ==
    (resp.op = "Register" /\ resp.success /\ GetUserByID(resp.data.id) # {} /\ Login([email |-> resp.in.email, password |-> resp.in.password])) =>
        /\ resp'.success /\ resp'.status = 200
        /\ ValidateToken(resp'.data.token, now).ok
        /\ resp'.data.token.user_id = resp.data.id

C11_Create(req) ==
    (resp.op = "Login" /\ resp.success /\ req.description = None /\ resp.data.token \in FlowToken(resp.data.user.id) /\ PostTodos(BearerHeader(resp.data.token), req)) =>
        /\ resp'.success /\ resp'.status = 201
        /\ resp'.data.completed = FALSE /\ resp'.data.title = req.title
        /\ resp'.data \in todos'

C11_Patch(token) ==
    (resp.op = "Create" /\ resp.success /\ resp.data \in todos /\ token \in FlowToken(resp.data.user_id) /\ PatchTodo(BearerHeader(token), resp.data.id, OnlyCompleted(TRUE))) =>
        /\ resp'.success /\ resp'.status = 200
        /\ resp'.data.completed = TRUE /\ resp'.data.title = resp.data.title
        /\ resp'.data.id = resp.data.id

C11_Delete(token) ==
    (resp.op = "Update" /\ resp.success /\ resp.data \in todos /\ token \in FlowToken(resp.data.user_id) /\ DeleteTodo(BearerHeader(token), resp.data.id)) =>
        /\ resp'.success /\ resp'.status = 200
        /\ {t \in todos' : t.id = resp.data.id} = {}

C11_Get(token) ==
    (resp.op = "Delete" /\ resp.success /\ token \in FlowToken(resp.in.user_id) /\ GetTodo(BearerHeader(token), resp.in.id)) =>
        IsError(resp', 404, CodeNotFound)

C11_FlowSteps(requests) ==
    /\ \A req \in requests : C11_Register(req)
    /\ C11_Login
    /\ \A req \in CreateTodoRequests : C11_Create(req)
    /\ \A tr \in issued : C11_Patch(tr.Token) /\ C11_Delete(tr.Token) /\ C11_Get(tr.Token)

C11_FlowAsClaimed == [][C11_FlowSteps(RegisterRequests)]_vars

\* C11 for the payloads whose password bcrypt takes: every step of the flow
\* answers as claimed.
C11_FlowWithinBcryptLimit == [][C11_FlowSteps({r \in RegisterRequests : Bytes(r.password) <= BcryptMaxBytes})]_vars

C11_FlowDone == resp.op = "GetByID" /\ IsError(resp, 404, CodeNotFound) /\ users # {} /\ todos = {} /\ nextTodo = 2 /\ now = 3

\* C12: whether a token is accepted depends on the token, the secret and
\* the instant only.  No step that leaves the clock alone (a login, a
\* refresh, a registration, the deletion of the user) makes an accepted
\* token rejected; the middleware accepts a held token exactly from its nbf
\* to before its exp, whatever the store holds; and after a successful
\* refresh the old and the new token are both accepted.
C12_StepKeepsAccepted == \A tr \in issued : (ValidateToken(tr.Token, now).ok /\ now' = now) => ValidateToken(tr.Token, now).ok'

C12_RefreshKeepsBoth == \A tr \in issued : (Refresh(tr.Token) /\ resp'.success) => (ValidateToken(tr.Token, now').ok /\ ValidateToken(resp'.data.token, now').ok /\ tr.Token \in {x.Token : x \in issued'})

C12_TimeOnly == \A tr \in issued : AuthenticateRequest(BearerHeader(tr.Token), now).ok <=> (tr.Token.nbf <= now /\ now < tr.Token.exp)

C12_NoRevocation == [][C12_StepKeepsAccepted /\ C12_RefreshKeepsBoth]_vars /\ []C12_TimeOnly

C12_Witness == resp.op = "Authenticate" /\ resp.success /\ users = {} /\ \E t1, t2 \in issued : t1.Token.user_id = t2.Token.user_id /\ t1.Token.exp < t2.Token.exp /\ resp.in = t1.Token /\ ValidateToken(t1.Token, now).ok /\ ValidateToken(t2.Token, now).ok

\* C13: every error kind goes out with one fixed pair of code and status
\* (VALIDATION_ERROR 400, INVALID_CREDENTIALS 401, USER_EXISTS 409,
\* NOT_FOUND 404, FORBIDDEN 403, UNAUTHORIZED 401, BAD_REQUEST 400,
\* INTERNAL_ERROR 500), and an error that is no AppError goes out of
\* JSONError as INTERNAL_ERROR with status 500.
StatusOfCode == [c \in {CodeValidation, CodeBadRequest} |-> 400] @@ [c \in {CodeInvalidCredentials, CodeUnauthorized} |-> 401] @@ (CodeForbidden :> 403) @@ (CodeNotFound :> 404) @@ (CodeUserExists :> 409) @@ (CodeInternal :> 500)

C13_Pair(r) == ~r.success /\ r.error.code \in DOMAIN StatusOfCode /\ r.status = StatusOfCode[r.error.code]

C13_OneStatusPerCode ==
    /\ \A op \in Handlers, e \in AppErrors : C13_Pair(JSONError(op, e)) /\ JSONError(op, e).error.code = e.code
    /\ {e.code : e \in AppErrors} = DOMAIN StatusOfCode
    /\ \A op \in Handlers, e \in PlainErrors : JSONError(op, e).status = 500 /\ JSONError(op, e).error.code = CodeInternal
    /\ ~resp.success => C13_Pair(resp)

C13_Witness == resp.op = "List" /\ resp = JSONError("List", Errorf("failed to get todo by ID")) /\ resp.status = 500

\* C14: a response with status 500 carries INTERNAL_ERROR, the one generic
\* message and no details, whether it comes from a fault of the store, the
\* hasher or the token manager, from an error that is no AppError, or from
\* a recovered panic; the text of the cause is in no field of the body.
GenericBody == [code |-> CodeInternal, message |-> "An unexpected error occurred", details |-> <<>>]

CauseTexts == {c.error : c \in PlainErrors} \cup {e.err[1].error : e \in {a \in AppErrors : a.err # None}}

C14_Opaque(r) ==
    /\ DOMAIN r = {"op", "success", "status", "error"}
    /\ DOMAIN r.error = {"code", "message", "details"}
    /\ r.error.message \notin CauseTexts
    /\ \A i \in 1..Len(r.error.details) : r.error.details[i] \notin CauseTexts
    /\ r.status = 500 => r.error = GenericBody

C14_InternalErrorOpaque ==
    /\ \A op \in Handlers, cause \in PlainErrors : C14_Opaque(JSONError(op, cause)) /\ C14_Opaque(JSONError(op, ServiceFault(cause))) /\ C14_Opaque(RecoverHandle(op, cause.error))
    /\ \A op \in Handlers, cause \in PlainErrors : JSONError(op, cause).status = 500 /\ JSONError(op, ServiceFault(cause)).status = 500
    /\ \A op \in Handlers, e \in AppErrors : C14_Opaque(JSONError(op, e))
    /\ ~resp.success => C14_Opaque(resp)

C14_Witness == resp.op = "Register" /\ resp.status = 500 /\ resp.error = GenericBody /\ users = {}

\* C15: a payload that violates the constraints of k >= 1 fields gets one
\* VALIDATION_ERROR (400) whose details hold one entry for every violating
\* field, in the order the fields are declared, and the service is not
\* called: nothing is stored and no token is given out, whatever the
\* service would have answered.
DetailField(d) == CASE d \in {"email: is required", "email: must be a valid email", "email: must be at most 255 characters"} -> "email" [] d \in {"password: is required", "password: must be at least 8 characters", "password: must be at most 72 characters"} -> "password" [] d \in {"name: is required", "name: must be at most 255 characters"} -> "name" [] OTHER -> "?"

RECURSIVE Keep1(_, _)

Keep1(fields, bad) == IF fields = <<>> THEN <<>> ELSE (IF Head(fields) \in bad THEN <<Head(fields)>> ELSE <<>>) \o Keep1(Tail(fields), bad)

BadEmail(e) == e = "" \/ e \notin Emails \/ Runes(e) > 255

RegisterViolators(req) == {f \in {"email"} : BadEmail(req.email)} \cup {f \in {"password"} : Runes(req.password) < 8 \/ Runes(req.password) > 72} \cup {f \in {"name"} : Runes(req.name) < 1 \/ Runes(req.name) > 255}

LoginViolators(req) == {f \in {"email"} : BadEmail(req.email)} \cup {f \in {"password"} : req.password = ""}

C15_AllViolations(result, fields, bad) ==
    IF bad = {} THEN result.ok
    ELSE /\ ~result.ok
         /\ result.err.code = CodeValidation /\ result.err.status = 400
         /\ [i \in 1..Len(result.err.details) |-> DetailField(result.err.details[i])] = Keep1(fields, bad)

C15_ServiceNotCalled ==
    /\ \A req \in RegisterPayloads : (resp'.op = "Register" /\ ~validateStruct(req).ok /\ Register(req)) => (resp' = JSONError("Register", validateStruct(req).err) /\ UNCHANGED <<now, users, todos, nextUser, nextTodo, issued>>)
    /\ \A req \in LoginPayloads : (resp'.op = "Login" /\ ~validateLogin(req).ok /\ Login(req)) => (resp' = JSONError("Login", validateLogin(req).err) /\ UNCHANGED <<now, users, todos, nextUser, nextTodo, issued>>)

C15_AllViolationsReported ==
    /\ [](\A req \in RegisterPayloads : C15_AllViolations(validateStruct(req), <<"email", "password", "name">>, RegisterViolators(req)))
    /\ [](\A req \in LoginPayloads : C15_AllViolations(validateLogin(req), <<"email", "password">>, LoginViolators(req)))
    /\ [][C15_ServiceNotCalled]_vars

C15_Witness == resp = JSONError("Register", WithDetails(ErrValidation, <<"email: must be a valid email", "password: must be at least 8 characters", "name: is required">>)) /\ users # {}

\* C16: a todo route called with no Authorization header, with a header
\* that is not `Bearer <token>`, or with a token ValidateToken rejects
\* answers 401 UNAUTHORIZED and leaves the store as it was, the service not
\* run; with an accepted token the handler runs with the user id claim of
\* that token as the caller.
TodoOps == {"Create", "List", "GetByID", "Update", "Delete"}

C16_HeaderRule(h) ==
    /\ AuthenticateRequest(h, now).ok <=> (Len(h) = 2 /\ h[1] = "Bearer" /\ ValidateToken(h[2], now).ok)
    /\ ~AuthenticateRequest(h, now).ok => (AuthenticateRequest(h, now).err.code = CodeUnauthorized /\ AuthenticateRequest(h, now).err.status = 401)
    /\ AuthenticateRequest(h, now).ok => GetUserID(h) = h[2].user_id

C16_Unauthorized == IsError(resp', 401, CodeUnauthorized) /\ UNCHANGED <<now, users, todos, nextUser, nextTodo, issued>>

\* The steps the todo routes take with header h.
C16_RouteStep(op, h) ==
    \/ op = "Create" /\ \E req \in CreateTodoRequests : PostTodos(h, req)
    \/ op = "List" /\ GetTodos(h)
    \/ op = "GetByID" /\ \E id \in TodoIds : GetTodo(h, id)
    \/ op = "Delete" /\ \E id \in TodoIds : DeleteTodo(h, id)
    \/ op = "Update" /\ \E id \in TodoIds : PatchTodo(h, id, OnlyCompleted(TRUE))

\* A step of a todo route either is a 401 that changes nothing, or it is no
\* step of a request the middleware rejects and the caller it ran with is
\* the user id of a token that is accepted.
C16_Step ==
    (resp'.op \in TodoOps) =>
        IF resp'.status = 401
        THEN C16_Unauthorized
        ELSE /\ \A h \in AuthHeaders : ~AuthenticateRequest(h, now).ok => ~C16_RouteStep(resp'.op, h)
             /\ \E tr \in issued : ValidateToken(tr.Token, now).ok /\ (resp'.success => resp'.in.user_id = tr.Token.user_id)

C16_Answered == (resp.op \in TodoOps /\ resp.success) => resp.in.user_id \in {tr.Token.user_id : tr \in issued}

C16_MiddlewareGuardsTodos == [](\A h \in AuthHeaders : C16_HeaderRule(h)) /\ []C16_Answered /\ [][C16_Step]_vars

C16_Witness == resp.op = "Delete" /\ IsError(resp, 401, CodeUnauthorized) /\ resp.error.message = "Invalid or expired token" /\ \E tr \in issued, t \in todos : issued = {tr} /\ t.user_id = tr.Token.user_id /\ now >= tr.Token.exp

\* C17: Login with the email of a stored user and the password that user
\* registered with succeeds: its token is accepted by ValidateToken and
\* carries the id and email of the stored user, and with it come the
\* token's expiry and the public view of that user.
RegisteredPassword(u) == u.password_hash.bcrypt

C17_Post(u, r) ==
    /\ r.ok
    /\ ValidateToken(r.val.token, now).ok
    /\ r.val.token.user_id = u.id /\ r.val.token.email = u.email
    /\ r.val.expires_at = now + expiryHours * Hour
    /\ r.val.token.exp = NewNumericDate(r.val.expires_at)
    /\ r.val.user = ToUserInfo(u)

C17_Answered ==
    (resp.op = "Login" /\ resp.success) =>
        /\ resp.status = 200
        /\ resp.data.user.email = resp.in.email /\ resp.data.token.email = resp.in.email
        /\ resp.data.token.user_id = resp.data.user.id
        /\ resp.data.token.exp = NewNumericDate(resp.data.expires_at)
        /\ resp.data.token.exp > resp.data.token.nbf

C17_LoginSucceeds ==
    /\ \A u \in users : C17_Post(u, LoginSvc([email |-> u.email, password |-> RegisteredPassword(u)], now))
    /\ C17_Answered

C17_Witness == resp.op = "Login" /\ resp.success /\ Cardinality(users) = 2 /\ \E u \in users : u.id = 2 /\ resp.data.user = ToUserInfo(u) /\ resp.data.token \in {tr.Token : tr \in issued}

\* C18: TodoService.Create(U, request) for a stored caller U stores and
\* returns one new todo owned by U, not completed, with the title and the
\* description of the request, whatever else the body of the request held.
C18_Post(u, body, r) ==
    /\ r.res.ok
    /\ r.res.val.user_id = u
    /\ r.res.val.completed = FALSE
    /\ r.res.val.title = body.title /\ r.res.val.description = body.description
    /\ r.res.val \notin todos /\ r.todos = todos \cup {r.res.val}

C18_Answered ==
    (resp.op = "Create" /\ resp.success) =>
        /\ resp.status = 201
        /\ resp.data.user_id = resp.in.user_id
        /\ resp.data.completed = FALSE
        /\ resp.data.title = resp.in.req.title /\ resp.data.description = resp.in.req.description

C18_CreateOwnedNotCompleted ==
    /\ \A u \in UserIds, body \in CreateBodies : (GetUserByID(u) # {}) => C18_Post(u, body, CreateSvc(u, decodeJSON(body), now + 1))
    /\ C18_Answered

C18_Witness == resp.op = "Create" /\ resp.success /\ resp.data.user_id = 2 /\ resp.data.description = Some("d") /\ resp.data \in todos /\ \E t \in todos : t.user_id = 1 /\ t.completed

\* C19: AuthService.Refresh with a token that is still accepted and whose
\* user is no longer stored answers NOT_FOUND (404) and gives out no token.
C19_Step == \A tr \in issued : (ValidateToken(tr.Token, now).ok /\ GetUserByID(tr.Token.user_id) = {} /\ Refresh(tr.Token)) => (IsError(resp', 404, CodeNotFound) /\ issued' = issued)

C19_Orphaned == \A tr \in issued : (ValidateToken(tr.Token, now).ok /\ GetUserByID(tr.Token.user_id) = {}) => (IsFail(RefreshSvc(tr.Token, now), 404, CodeNotFound) /\ RefreshSvc(tr.Token, now).err.message = "User not found")

C19_Answered == (resp.op = "Refresh" /\ resp.success) => \E tr \in issued : tr.Token.user_id = resp.data.user.id /\ tr.Token.user_id = resp.in.user_id

C19_DeletedUserNotRefreshed == []C19_Orphaned /\ []C19_Answered /\ [][C19_Step]_vars

C19_Witness == resp.op = "Refresh" /\ IsError(resp, 404, CodeNotFound) /\ users = {} /\ \E tr \in issued : issued = {tr} /\ ValidateToken(tr.Token, now).ok

\* C20, as claimed: of two Register requests for the same fresh email that
\* run interleaved on a store without faults exactly one succeeds and the
\* other answers USER_EXISTS (409); no request answers a 5xx.
C20_Racing(p, q) == p # q /\ inflight[p].pc = "done" /\ inflight[q].pc = "done" /\ inflight[p].req.email = inflight[q].req.email /\ ~inflight[p].existing /\ ~inflight[q].existing

C20_DuplicateIsClientError ==
    /\ \A p \in Requests : inflight[p].pc = "done" => inflight[p].resp.status < 500
    /\ \A p, q \in Requests : C20_Racing(p, q) => {inflight[p].resp.status, inflight[q].resp.status} = {201, 409}

\* What the store's UNIQUE(email) does give: the racing requests never both
\* succeed, and no email is stored twice.
C20_AtMostOneSucceeds ==
    /\ \A p, q \in Requests : C20_Racing(p, q) => {inflight[p].resp.status, inflight[q].resp.status} = {201, 500}
    /\ \A e \in Emails : Cardinality(GetUserByEmail(e)) <= 1

\* C21, as claimed: when an Update that carries only `title` and an Update
\* that carries only `completed` run interleaved on the same todo and both
\* have returned success, the stored todo holds the new title and the new
\* completed value.
C21_Pair(p, q) == p # q /\ inflight[p].pc = "done" /\ inflight[q].pc = "done" /\ inflight[p].resp.op = "Update" /\ inflight[q].resp.op = "Update" /\ inflight[p].resp.success /\ inflight[q].resp.success /\ inflight[p].resp.in.id = inflight[q].resp.in.id /\ inflight[p].resp.in.req \in {OnlyTitle(t) : t \in UpdateTitles} /\ inflight[q].resp.in.req = OnlyCompleted(TRUE)

C21_Writes(p) == inflight[p].pc = "read" /\ inflight[p].op = "Update" /\ inflight'[p].pc = "done" /\ GetTodoByID(inflight[p].in.id) # {}

C21_WriteStep == \A p \in Requests : C21_Writes(p) =>
    /\ inflight'[p].resp.data = [inflight[p].todo EXCEPT !.updated_at = now']
    /\ todos' = (todos \ GetTodoByID(inflight[p].in.id)) \cup {inflight'[p].resp.data}

C21_Returned == {inflight[p].resp.data : p \in {q \in Requests : inflight[q].pc = "done" /\ inflight[q].resp.op = "Update" /\ inflight[q].resp.success}}

C21_StoredIsReturned == \A t \in todos : t.updated_at > t.created_at => t \in C21_Returned

C27_Returns(p) == inflight[p].pc = "read" /\ inflight[p].op = "Update" /\ inflight'[p].pc = "done" /\ inflight'[p].resp.success

C27_SuccessMeansStored == [][\A p \in Requests : C27_Returns(p) => inflight'[p].resp.data \in todos']_vars

\* C22: the owner of a stored todo never changes: a todo enters the store
\* by a Create, with the caller of that Create as its owner and an id no
\* todo had before, and no Create, Update or Delete changes the owner of a
\* todo that stays stored.
C22_Step == \A after \in todos' :
    IF GetTodoByID(after.id) # {}
    THEN \A before \in GetTodoByID(after.id) : after.user_id = before.user_id /\ after.created_at = before.created_at
    ELSE resp'.op = "Create" /\ resp'.success /\ resp'.data = after /\ after.user_id = resp'.in.user_id /\ after.id = nextTodo /\ nextTodo' > nextTodo

C22_FreshIds == \A t \in todos : t.id < nextTodo /\ Cardinality(GetTodoByID(t.id)) = 1

C22_UpdateKeepsOwner == \A old \in todos, u \in UserIds, req \in UpdateTodoRequests : \A t \in UpdateSvc(u, old.id, req, now + 1).todos : t.id = old.id => t.user_id = old.user_id

C22_OwnerNeverChanges == []C22_FreshIds /\ []C22_UpdateKeepsOwner /\ [][C22_Step]_vars

C22_Witness == resp.op = "Update" /\ resp.success /\ resp.in.req.title # None /\ resp.data \in todos /\ resp.data.user_id = resp.in.user_id /\ resp.data.updated_at > resp.data.created_at /\ \E t \in todos : t.user_id # resp.data.user_id

\* C23: ValidateToken accepts only tokens whose algorithm is HS256 and that
\* are signed with the server secret, whatever claims and time window they
\* carry; the middleware passes only the identity of a token the server
\* issued.
C23_Variants == {[SignedAs(tr.Token, alg, key) EXCEPT !.user_id = u] : tr \in issued, alg \in Algorithms, key \in Keys, u \in UserIds}

C23_OnlyExpected == \A token \in C23_Variants : \A t \in 0..MaxTime :
    /\ ValidateToken(token, t).ok => (token.alg = SigningMethod /\ token.key = Secret)
    /\ (token.alg # SigningMethod \/ token.key # Secret) => (~ValidateToken(token, t).ok /\ ~RefreshToken(token, t).ok /\ ~AuthenticateRequest(BearerHeader(token), t).ok)

C23_Passed == \A h \in AuthHeaders : AuthenticateRequest(h, now).ok => \E tr \in issued : h = BearerHeader(tr.Token) /\ GetUserID(h) = tr.Token.user_id

C23_Step == (resp'.op \in TodoOps /\ resp'.status # 401) => \E tr \in issued : ValidateToken(tr.Token, now).ok /\ (resp'.success => resp'.in.user_id = tr.Token.user_id)

C23_OnlyIssuedIdentities == []C23_OnlyExpected /\ []C23_Passed /\ [][C23_Step]_vars

C23_Witness == resp.op = "GetByID" /\ IsError(resp, 401, CodeUnauthorized) /\ resp.error.message = "Invalid or expired token" /\ todos # {} /\ \E tr \in issued : ValidateToken(tr.Token, now).ok /\ ~ValidateToken(SignedAs(tr.Token, "HS384", Secret), now).ok

\* C24, as claimed: after a shutdown signal no new request is accepted, no
\* request in flight is ended before the 30 seconds of the grace window
\* have passed, and the pool is never released while a request that started
\* before the signal is still running.
C24_NoNewRequest == (server.phase # "serving") => \A p \in Requests : inflight[p].pc = "idle" => inflight'[p].pc = "idle"

C24_WaitsForWindow == (server.phase = "draining" /\ Running # {} /\ server.waited < ShutdownTimeout) => (server'.phase = "draining" /\ server'.pool = "open")

C24_ReleasedAfterRequests == [](server.pool # "open" => Running = {}) /\ [][C24_NoNewRequest]_vars /\ [][C24_WaitsForWindow]_vars

\* What holds: pool.Close runs only after srv.Shutdown returned nil, with
\* no request in flight; when the window has passed with a request still
\* in flight the process exits without pool.Close and the pool goes with
\* the request still running.
C24_Released ==
    /\ server.pool = "open" <=> server.phase \in {"serving", "draining"}
    /\ server.pool = "closed" => (server.phase = "stopped" /\ Running = {})
    /\ server.pool = "dropped" => (server.phase = "exited" /\ server.waited = ShutdownTimeout)
    /\ server.phase = "serving" => server.waited = 0

C24_GraceThenRelease == []C24_Released /\ [][C24_NoNewRequest]_vars /\ [][C24_WaitsForWindow]_vars

C24_Witness == server.pool = "dropped" /\ server.waited = ShutdownTimeout /\ Running # {} /\ \E p \in Requests : inflight[p].pc = "done" /\ inflight[p].resp.status = 201

\* C25: after a Delete of a todo has returned success, GetByID, Update and
\* Delete for that todo answer NOT_FOUND (404) to the former owner and to
\* every other caller, no List holds it, and it never comes back.
C25_Gone(id) == id < nextTodo /\ GetTodoByID(id) = {}

C25_NotFound == \A id \in TodoIds : C25_Gone(id) =>
    /\ \A u \in UserIds : C1_AllThree(u, id, 404, CodeNotFound)
    /\ \A u \in UserIds, nilOnEmpty \in BOOLEAN : \A i \in 1..Len(ListSvc(u, nilOnEmpty).val.elems) : ListSvc(u, nilOnEmpty).val.elems[i].id # id

C25_Answered == (resp.op = "Delete" /\ resp.success) => C25_Gone(resp.in.id)

C25_Step ==
    /\ (resp'.op = "Delete" /\ resp'.success) => (resp'.in.id < nextTodo /\ {t \in todos' : t.id = resp'.in.id} = {})
    /\ \A id \in TodoIds : C25_Gone(id) => (id < nextTodo' /\ {t \in todos' : t.id = id} = {})

C25_DeletedStaysGone == []C25_NotFound /\ []C25_Answered /\ [][C25_Step]_vars

C25_Witness == resp.op = "GetByID" /\ IsError(resp, 404, CodeNotFound) /\ todos = {} /\ nextTodo = MaxTodos + 1 /\ \A id \in TodoIds : C25_Gone(id)

\* C26: at most one stored user has any given email, also when Register
\* requests run interleaved: the INSERT of a request that looked up before
\* another one inserted the same email is refused by UNIQUE(email), stores
\* nothing and does not answer success.
C26_Late(p) == inflight[p].pc = "looked" /\ inflight'[p].pc = "done" /\ ~inflight[p].existing /\ GetUserByEmail(inflight[p].req.email) # {}

C26_SecondInsertRefused == \A p \in Requests : C26_Late(p) => (users' = users /\ ~inflight'[p].resp.success)

C26_OnePerEmail == \A u, v \in users : u.email = v.email => u = v

C26_EmailUnique == []C26_OnePerEmail /\ [][C26_SecondInsertRefused]_vars

C26_Witness == \E p, q \in Requests : C20_Racing(p, q) /\ inflight[p].resp.success /\ ~inflight[q].resp.success /\ Cardinality(GetUserByEmail(inflight[q].req.email)) = 1 /\ nextUser = 2

\* C28: each stored todo's owner is a stored user: the removal of a user
\* removes that user's todos, and a Create under a token that is still
\* accepted but whose user is no longer stored passes the middleware,
\* stores no todo and answers an error.
C28_OwnersStored == \A t \in todos : GetUserByID(t.user_id) # {}

C28_Orphans == {tr \in issued : ValidateToken(tr.Token, now).ok /\ GetUserByID(tr.Token.user_id) = {}}

C28_OrphanCreate == \A tr \in C28_Orphans, req \in CreateTodoRequests :
    /\ AuthenticateRequest(BearerHeader(tr.Token), now).ok
    /\ IsFail(CreateSvc(GetUserID(BearerHeader(tr.Token)), req, now + 1).res, 500, CodeInternal)
    /\ CreateSvc(GetUserID(BearerHeader(tr.Token)), req, now + 1).todos = todos

C28_Step ==
    /\ (resp'.op = "DeleteUser" /\ resp' # resp) => (GetUserByID(resp'.in) # {} /\ todos' = {t \in todos : t.user_id # resp'.in} /\ \A u \in users' : u.id # resp'.in)
    /\ (resp'.op = "Create" /\ C28_Orphans = issued /\ issued # {}) => (IsError(resp', 500, CodeInternal) /\ todos' = todos)

C28_TodosHaveOwners == []C28_OwnersStored /\ []C28_OrphanCreate /\ [][C28_Step]_vars

C28_Witness == resp.op = "Create" /\ IsError(resp, 500, CodeInternal) /\ users = {} /\ todos = {} /\ nextTodo > 1 /\ C28_Orphans # {}

\* C29: an operation that returns an error leaves the store as it was: a
\* GetByID, Update or Delete that returns FORBIDDEN or NOT_FOUND changes no
\* todo, a Register that returns USER_EXISTS changes no user, and Login,
\* Refresh, GetByID and List write nothing whatever they return.
C29_ServicesWriteNothing ==
    /\ \A req \in RegisterRequests : ~RegisterSvc(req, now + 1).res.ok => RegisterSvc(req, now + 1).users = users
    /\ \A req \in RegisterRequests : GetUserByEmail(req.email) # {} => (IsFail(RegisterSvc(req, now + 1).res, 409, CodeUserExists) /\ RegisterSvc(req, now + 1).users = users)
    /\ \A u \in UserIds, id \in TodoIds : ~DeleteSvc(u, id).res.ok => DeleteSvc(u, id).todos = todos
    /\ \A u \in UserIds, id \in TodoIds, req \in UpdateTodoRequests : ~UpdateSvc(u, id, req, now + 1).res.ok => UpdateSvc(u, id, req, now + 1).todos = todos
    /\ \A u \in UserIds, req \in CreateTodoRequests : ~CreateSvc(u, req, now + 1).res.ok => CreateSvc(u, req, now + 1).todos = todos

C29_Step ==
    /\ ~resp'.success => UNCHANGED <<users, todos, nextUser, nextTodo>>
    /\ resp'.op \in {"Login", "Refresh", "GetByID", "List"} => UNCHANGED <<users, todos, nextUser, nextTodo>>

C29_ErrorsLeaveStore == []C29_ServicesWriteNothing /\ [][C29_Step]_vars

C29_Witness == resp.op = "Delete" /\ IsError(resp, 403, CodeForbidden) /\ Cardinality(users) = 2 /\ \E t \in todos : t.completed

\* C30: WithDetails returns a new error and leaves its receiver as it was:
\* after any sequence or interleaving of failed validations the shared
\* ErrValidation has no details, and the details of a validation error are
\* the violations of the request that produced it and of no other.
C30_SharedUntouched == errValidation = ErrValidation /\ errValidation.details = <<>>

C30_NewError == \A req \in RegisterPayloads : ~validateStruct(req).ok =>
    /\ validateStruct(req).err # errValidation
    /\ validateStruct(req).err = [errValidation EXCEPT !.details = formatValidationErrors(req)]

C30_OwnDetails == \A p \in Requests :
    /\ inflight[p].pc = "invalid" => inflight[p].err.details = formatValidationErrors(inflight[p].req)
    /\ inflight[p].pc = "done" => inflight[p].resp.error.details = formatValidationErrors(inflight[p].req)

C30_Step == (resp' # resp /\ resp'.op = "Register") => \E p \in Requests : inflight[p].pc = "done" /\ resp' = inflight[p].resp /\ resp'.error.details = formatValidationErrors(inflight[p].req)

C30_WithDetailsCopies == []C30_SharedUntouched /\ []C30_NewError /\ []C30_OwnDetails /\ [][C30_Step]_vars

C30_Witness == \E p, q \in Requests : inflight[p].pc = "done" /\ inflight[q].pc = "invalid" /\ inflight[p].req.email = "a@b.com" /\ inflight[q].req.email = "" /\ inflight[p].resp.error.details # inflight[q].err.details /\ resp.op = "Login" /\ IsError(resp, 400, CodeValidation) /\ errValidation.details = <<>>

====
